---- MODULE Spec2Model ----
(***************************************************************************)
(* Model of the package facade hatch_mcp_server/__init__.py: a module body *)
(* of three statements (bind __version__, from .hatch_mcp import HatchMCP, *)
(* bind __all__) executed by the import system on behalf of a consumer,    *)
(* together with the consumer operations the facade exists for: import,    *)
(* wildcard import and attribute access.                                   *)
(***************************************************************************)
EXTENDS Integers, Sequences, FiniteSets, TLC

\* ---------------------------------------------------------------- bounds
NumConsumers == 2
NumObjs == 2
MaxAttempts == 2

Consumers == 1..NumConsumers
ObjIds == 1..NumObjs

\* ---------------------------------------------------------------- values
\* Python values, tagged by the field name so that values of different
\* types are comparable.
Str(s) == [str |-> s]
Obj(o) == [obj |-> o]
List(l) == [list |-> l]
Mod(m) == [mod |-> m]
NoValue == [novalue |-> TRUE]

NoError == [exc |-> "none", name |-> ""]
ModuleNotFoundError(m) == [exc |-> "ModuleNotFoundError", name |-> m]
ImportError(n) == [exc |-> "ImportError", name |-> n]
AttributeError(n) == [exc |-> "AttributeError", name |-> n]

EmptyNs == [n \in {} |-> NoValue]
Bind(nsv, n, v) == (n :> v) @@ nsv
Range(s) == {s[i] : i \in DOMAIN s}

\* Module names as sys.modules keys.
Facade == "hatch_mcp_server"
Sub == "hatch_mcp_server.hatch_mcp"

\* ------------------------------------------------------ the facade's code
\* Variant: the literal left at the previous release's value.
StaleVersion == "0.1.0"

\* line 11: __version__ = "0.2.0"
VersionLiteral == "0.2.0"

\* Variant: the entry listed twice.
AllDuplicated == <<"HatchMCP", "HatchMCP">>

\* Variant: the version attribute listed as a public name too.
AllWithVersion == <<"HatchMCP", "__version__">>

\* lines 15-17: __all__ = ['HatchMCP']
AllLiteral == <<"HatchMCP">>

\* The module body's statements in source order; "end" is falling off the
\* end of the body.
First == "L11"

\* Variant: the import statement left out of the body.
AfterSkipsImport(l) ==
  CASE l = "L11" -> "L15"
    [] l = "L13" -> "L15"
    [] l = "L15" -> "end"

\* Variant: the export list bound before the import statement.
AfterManifestFirst(l) ==
  CASE l = "L11" -> "L15"
    [] l = "L15" -> "L13"
    [] l = "L13" -> "end"

After(l) ==
  CASE l = "L11" -> "L13"
    [] l = "L13" -> "L15"
    [] l = "L15" -> "end"

\* Variant: a handler that runs the failed statement again.
OnRaiseRetry(l) == l

\* No try statement encloses any statement of the body: an exception raised
\* by statement l leaves the body, and the load has failed.
OnRaise(l) == "failed"

VARIABLES
  collab,      \* the collaborator module .hatch_mcp as the environment has it
  sysModules,  \* names registered in sys.modules
  ns,          \* namespace of the facade's module object
  pc,          \* position of the module body: idle, L11, L13, L15, loaded, failed
  importer,    \* the consumer whose import statement is executing the body
  stmt,        \* that statement: "import" or "star"
  consumers,   \* per consumer: what it holds and what it last saw
  execCount,   \* executions of the module body started in this process
  resolves     \* resolutions of the collaborator in the current execution

vars == <<collab, sysModules, ns, pc, importer, stmt, consumers, execCount, resolves>>

InProgress == pc \in {"L11", "L13", "L15"}
Defines(cl) == cl.exists /\ "HatchMCP" \in DOMAIN cl.ns

\* The collaborator as the environment can have it: absent, present without
\* the name, present with the name (alone or beside another name).
Collabs ==
  {[exists |-> FALSE, ns |-> EmptyNs]}
  \cup {[exists |-> TRUE, ns |-> ("Other" :> Obj(o))] : o \in ObjIds}
  \cup {[exists |-> TRUE, ns |-> ("HatchMCP" :> Obj(o))] : o \in ObjIds}
  \cup UNION {{[exists |-> TRUE, ns |-> ("HatchMCP" :> Obj(o)) @@ ("Other" :> Obj(p))] :
                  p \in ObjIds \ {o}} : o \in ObjIds}

Init ==
  /\ collab \in Collabs
  /\ sysModules = {}
  /\ ns = EmptyNs
  /\ pc = "idle"
  /\ importer = 1
  /\ stmt = "import"
  /\ consumers = [c \in Consumers |->
                    [mod |-> FALSE, star |-> EmptyNs, err |-> NoError,
                     read |-> [name |-> "", val |-> NoValue]]]
  /\ execCount = 0
  /\ resolves = 0

\* ------------------------------------------------------ import machinery
\* Variant: every import statement runs the body again.
NeverCached(mods) == FALSE

\* A module found in sys.modules is returned without running its body.
IsCached(mods) == Facade \in mods

\* from <module> import *: the names listed by __all__, each bound to the
\* module's attribute of that name.
StarNames(nsv) == Range(nsv["__all__"].list)
StarMissing(nsv) == StarNames(nsv) \ DOMAIN nsv
StarBindings(nsv) == [n \in StarNames(nsv) |-> nsv[n]]

\* What the consumer's statement binds once the module is available:
\* "import hatch_mcp_server" binds the module, the wildcard form binds the
\* exported names into the consumer's own namespace (AttributeError when a
\* listed name is not an attribute of the module).
Deliver(c, kind, nsv) ==
  [consumers EXCEPT ![c] =
     IF kind = "import"
       THEN [@ EXCEPT !.mod = TRUE, !.err = NoError]
       ELSE IF StarMissing(nsv) = {}
         THEN [@ EXCEPT !.star = StarBindings(nsv) @@ @, !.err = NoError]
         ELSE [@ EXCEPT !.err = AttributeError(CHOOSE n \in StarMissing(nsv) : TRUE)]]

\* The error the collaborator's resolution raises when it cannot succeed.
ResolutionError(cl) ==
  IF ~cl.exists THEN ModuleNotFoundError(Sub) ELSE ImportError("HatchMCP")

\* Variant: the imported object bound through a wrapper.
ImportFromWrapped(cl, mods, n) ==
  IF ~cl.exists \/ n \notin DOMAIN cl.ns
    THEN [raised |-> TRUE, exc |-> ResolutionError(cl), val |-> NoValue,
          fresh |-> cl.exists /\ Sub \notin mods]
    ELSE [raised |-> FALSE, exc |-> NoError, val |-> [wrapper |-> cl.ns[n]],
          fresh |-> Sub \notin mods]

\* line 13, from .hatch_mcp import HatchMCP: load the submodule unless it is
\* registered, then take the attribute of that name from it.
ImportFrom(cl, mods, n) ==
  IF ~cl.exists
    THEN [raised |-> TRUE, exc |-> ResolutionError(cl), val |-> NoValue, fresh |-> FALSE]
    ELSE IF n \notin DOMAIN cl.ns
      THEN [raised |-> TRUE, exc |-> ResolutionError(cl), val |-> NoValue,
            fresh |-> Sub \notin mods]
      ELSE [raised |-> FALSE, exc |-> NoError, val |-> cl.ns[n], fresh |-> Sub \notin mods]

\* Variant: the failure re-raised as another exception.
PropagateWrapped(e) == [exc |-> "RuntimeError", name |-> e.name]

\* The body has no handler around line 13 and the import system re-raises
\* what the body raised: the importer receives the same exception.
Propagate(e) == e

\* Completion of statement l with the namespace it leaves: go to the next
\* statement, or, past the last one, return the module to the importer.
Advance(l, nsv) ==
  IF After(l) = "end"
    THEN /\ pc' = "loaded"
         /\ consumers' = Deliver(importer, stmt, nsv)
    ELSE /\ pc' = After(l)
         /\ UNCHANGED consumers

\* ---------------------------------------------------------------- actions
\* A consumer's import statement finds the facade registered.
ImportCached(c, kind) ==
  /\ ~InProgress
  /\ IsCached(sysModules)
  /\ consumers' = Deliver(c, kind, ns)
  /\ UNCHANGED <<collab, sysModules, ns, pc, importer, stmt, execCount, resolves>>

\* A consumer's import statement finds the facade unregistered: a fresh
\* module object is registered and its body starts.
ImportBegin(c, kind) ==
  /\ ~InProgress
  /\ ~IsCached(sysModules)
  /\ execCount < MaxAttempts
  /\ sysModules' = sysModules \cup {Facade}
  /\ ns' = EmptyNs
  /\ pc' = First
  /\ importer' = c
  /\ stmt' = kind
  /\ execCount' = execCount + 1
  /\ resolves' = 0
  /\ UNCHANGED <<collab, consumers>>

ExecL11 ==
  /\ pc = "L11"
  /\ ns' = Bind(ns, "__version__", Str(VersionLiteral))
  /\ Advance("L11", ns')
  /\ UNCHANGED <<collab, sysModules, importer, stmt, execCount, resolves>>

ExecL13 ==
  /\ pc = "L13"
  /\ resolves' = resolves + 1
  /\ LET r == ImportFrom(collab, sysModules, "HatchMCP")
         withSub == IF r.fresh THEN Bind(ns, "hatch_mcp", Mod(Sub)) ELSE ns
         mods == IF collab.exists THEN sysModules \cup {Sub} ELSE sysModules
     IN IF r.raised
          THEN /\ ns' = withSub
               /\ sysModules' = mods \ {Facade}
               /\ consumers' = [consumers EXCEPT ![importer].err = Propagate(r.exc)]
               /\ pc' = OnRaise("L13")
          ELSE /\ ns' = Bind(withSub, "HatchMCP", r.val)
               /\ sysModules' = mods
               /\ Advance("L13", ns')
  /\ UNCHANGED <<collab, importer, stmt, execCount>>

ExecL15 ==
  /\ pc = "L15"
  /\ ns' = Bind(ns, "__all__", List(AllLiteral))
  /\ Advance("L15", ns')
  /\ UNCHANGED <<collab, sysModules, importer, stmt, execCount, resolves>>

AttrNames == {"__version__", "HatchMCP", "__all__", "hatch_mcp", "Other"}

\* hatch_mcp_server.<n> by a consumer that holds the module.
ReadAttr(c, n) ==
  /\ ~InProgress
  /\ consumers[c].mod
  /\ consumers' = [consumers EXCEPT ![c] =
                     [@ EXCEPT !.read =
                        [name |-> n,
                         val |-> IF n \in DOMAIN ns THEN ns[n] ELSE AttributeError(n)]]]
  /\ UNCHANGED <<collab, sysModules, ns, pc, importer, stmt, execCount, resolves>>

Next ==
  \/ \E c \in Consumers, kind \in {"import", "star"} : ImportCached(c, kind)
  \/ \E c \in Consumers, kind \in {"import", "star"} : ImportBegin(c, kind)
  \/ ExecL11
  \/ ExecL13
  \/ ExecL15
  \/ \E c \in Consumers, n \in AttrNames : ReadAttr(c, n)

Spec == Init /\ [][Next]_vars

\* ================================================================ claims
Bound(n) == n \in DOMAIN ns
Settled == pc \in {"loaded", "failed"}

\* C1 - Load failure propagation: when the collaborator module is absent or
\* does not define HatchMCP, the load never ends loaded and the facade is not
\* left registered; a failed load hands its importer exactly the error the
\* collaborator's resolution raised; a loaded facade always has HatchMCP
\* bound to an object, never missing and never a placeholder.
LoadFailurePropagation ==
  /\ (~Defines(collab) => pc # "loaded" /\ (~InProgress => Facade \notin sysModules))
  /\ (pc = "failed" =>
        /\ ~Defines(collab)
        /\ consumers[importer].err = ResolutionError(collab))
  /\ (pc = "loaded" => Bound("HatchMCP") /\ "obj" \in DOMAIN ns["HatchMCP"])

\* A load has failed on a collaborator that exists without the name, and the
\* importer holds the ImportError.
WitnessLoadFailure ==
  /\ pc = "failed"
  /\ collab.exists
  /\ consumers[importer].err = ImportError("HatchMCP")

\* C2 - No partial availability: once a load attempt has ended, whoever can
\* reach the facade (through sys.modules or through a module reference it
\* holds) finds both __version__ and HatchMCP bound; after a failed load the
\* facade is unregistered and no consumer holds the module or a name from it.
NoPartialAvailability ==
  Settled =>
    /\ (Facade \in sysModules => Bound("__version__") /\ Bound("HatchMCP"))
    /\ \A c \in Consumers :
         consumers[c].mod => Bound("__version__") /\ Bound("HatchMCP")
    /\ (pc = "failed" =>
          /\ Facade \notin sysModules
          /\ \A c \in Consumers : ~consumers[c].mod /\ consumers[c].star = EmptyNs)

\* A second load attempt has failed: the discarded module object had its
\* version bound, and nothing of it is reachable.
WitnessNoPartial ==
  /\ pc = "failed"
  /\ execCount = 2
  /\ Bound("__version__")
  /\ ~Bound("HatchMCP")
  /\ Facade \notin sysModules

\* C3 - Export identity: after a successful load the facade's HatchMCP is the
\* very object the collaborator module defines under that name, and so is the
\* HatchMCP a wildcard import hands a consumer.
ExportIdentity ==
  /\ (pc = "loaded" => Bound("HatchMCP") /\ ns["HatchMCP"] = collab.ns["HatchMCP"])
  /\ \A c \in Consumers :
       "HatchMCP" \in DOMAIN consumers[c].star =>
         consumers[c].star["HatchMCP"] = collab.ns["HatchMCP"]

\* Loaded from a collaborator that defines two objects; a consumer read
\* HatchMCP and got the second one, the one defined under that name.
WitnessExportIdentity ==
  /\ pc = "loaded"
  /\ "Other" \in DOMAIN collab.ns
  /\ \E c \in Consumers : consumers[c].read = [name |-> "HatchMCP", val |-> Obj(2)]

\* C4 - Version presence: after a successful load __version__ is bound and
\* equals the string "0.2.0".
VersionPresence ==
  pc = "loaded" => Bound("__version__") /\ ns["__version__"] = Str("0.2.0")

\* A consumer read the version attribute of the loaded facade.
WitnessVersion ==
  /\ pc = "loaded"
  /\ \E c \in Consumers : consumers[c].read = [name |-> "__version__", val |-> Str("0.2.0")]

\* C5 - Export completeness: after a successful load __all__ is the
\* one-element sequence <<"HatchMCP">>.
ExportCompleteness ==
  pc = "loaded" =>
    /\ Bound("__all__")
    /\ ns["__all__"] = List(<<"HatchMCP">>)
    /\ Len(ns["__all__"].list) = 1

\* A consumer read the export list of the loaded facade.
WitnessExportList ==
  /\ pc = "loaded"
  /\ \E c \in Consumers : consumers[c].read.name = "__all__"

PublicSurface ==
  /\ \A c \in Consumers :
       /\ consumers[c].star # EmptyNs => DOMAIN consumers[c].star = {"HatchMCP"}
       /\ consumers[c].read.name = "__version__" =>
            consumers[c].read.val = Str(VersionLiteral)
  /\ (pc = "loaded" =>
        /\ StarNames(ns) = {"HatchMCP"}
        /\ Bound("__version__")
        /\ "__version__" \notin StarNames(ns))

\* One consumer imported by wildcard only and holds HatchMCP but no module;
\* another holds the module and read __version__ through it.
WitnessPublicSurface ==
  \E c, d \in Consumers :
    /\ ~consumers[c].mod
    /\ DOMAIN consumers[c].star = {"HatchMCP"}
    /\ consumers[d].mod
    /\ consumers[d].read.name = "__version__"

\* C9 as stated - the load body runs once per process.
BodyRunsOncePerProcess == execCount <= 1

\* C9 - Single execution, no retry (amended): within one load attempt the
\* collaborator is resolved at most once and a failed state is followed only
\* by failed states; once loaded the body never runs again. A new attempt is
\* started only by a consumer's later import statement.
SingleResolutionNoRetry ==
  [][/\ resolves' <= 1
     /\ (pc = "failed" /\ execCount' = execCount => pc' = "failed")
     /\ (pc = "failed" /\ execCount' # execCount => pc' = First /\ resolves' = 0)
     /\ (pc = "loaded" => pc' = "loaded" /\ execCount' = execCount)]_vars

\* A second attempt, started by a later import statement after a failed
\* load, has resolved the collaborator once and failed again.
WitnessSecondAttempt ==
  /\ pc = "failed"
  /\ execCount = 2
  /\ resolves = 1

\* C10 - Load ordering: the statements run in the order version, import,
\* export list; so a failed load has __version__ bound and __all__ unbound,
\* and __all__ is never bound while HatchMCP is unbound.
LoadOrdering ==
  /\ (pc = "L11" => ~Bound("__version__") /\ ~Bound("HatchMCP") /\ ~Bound("__all__"))
  /\ (pc = "L13" => Bound("__version__") /\ ~Bound("HatchMCP") /\ ~Bound("__all__"))
  /\ (pc = "L15" => Bound("__version__") /\ Bound("HatchMCP") /\ ~Bound("__all__"))
  /\ (pc = "failed" => Bound("__version__") /\ ~Bound("__all__"))
  /\ (Bound("__all__") => Bound("HatchMCP"))

\* A load failed after the collaborator module itself had loaded: the
\* submodule attribute and the version are bound, the export list is not.
WitnessFailedAfterVersion ==
  /\ pc = "failed"
  /\ Bound("hatch_mcp")
  /\ Bound("__version__")
  /\ ~Bound("__all__")

====
